---- MODULE Spec2Model ----
(***************************************************************************)
(* Token Authority of the license tracker: JWT issuance and verification   *)
(* (api/auth.py), the blacklist of revoked tokens (api/models.py) and the  *)
(* logout endpoint (api/api.py).                                           *)
(*                                                                         *)
(* Time is counted in ticks; TicksPerSec ticks make one second, so that    *)
(* two calls can fall into the same second (the token's exp claim is an    *)
(* integer number of seconds) and still be ordered.                        *)
(***************************************************************************)
EXTENDS Integers, Sequences, FiniteSets, Bags, TLC

\* ------------------------------------------------------------------ bounds
TicksPerSec == 2
MaxSubTicks == 1
MaxDays == 1
MaxIssued == 1

\* ------------------------------------------------------- program constants
SecondsPerMinute == 60
SecondsPerDay == 86400
BlacklistDays == 1

MinuteTicks == SecondsPerMinute * TicksPerSec
DayTicks == SecondsPerDay * TicksPerSec

\* values of the JWT_EXPIRATION_TIME setting, in minutes: one day, two days
TTLs == {1440, 2880}

SECRET_KEY == "SECRET_KEY"
AttackerKey == "attacker-key"

\* ----------------------------------------------------------- identity store
Principals ==
  { [id |-> 1, username |-> "alice", email |-> "alice@x", first_name |-> "Alice",
     last_name |-> "A", groups |-> <<"Admin", "User">>],
    [id |-> 2, username |-> "bob", email |-> "bob@x", first_name |-> "Bob",
     last_name |-> "B", groups |-> <<>>] }

PrincipalById(i) == CHOOSE p \in Principals : p.id = i

\* ------------------------------------------------------------------ tokens
NoPayload ==
  [user_id |-> 0, username |-> "", email |-> "", first_name |-> "", last_name |-> "",
   role |-> "", groups |-> <<>>, exp |-> 0]

\* a string that is not a three-part signed token
Garbage == [fmt |-> "garbage", key |-> "", payload |-> NoPayload]
\* the empty string
Empty == [fmt |-> "empty", key |-> "", payload |-> NoPayload]
NoToken == [fmt |-> "absent", key |-> "", payload |-> NoPayload]

\* jwt.encode: a datetime exp (here in ticks) becomes an integer number of
\* seconds; HS256 is deterministic, so the string is a function of the
\* payload and the key.
jwt_encode(payload, key) ==
  [fmt |-> "jwt", key |-> key,
   payload |-> [payload EXCEPT !.exp = payload.exp \div TicksPerSec]]

\* mutant: a token is still accepted at the second of its exp
jwt_decode_exp_inclusive(token, key, t) ==
  IF token.fmt # "jwt" THEN [exc |-> "InvalidTokenError", payload |-> NoPayload]
  ELSE IF token.key # key THEN [exc |-> "InvalidTokenError", payload |-> NoPayload]
  ELSE IF token.payload.exp * TicksPerSec < t
    THEN [exc |-> "ExpiredSignatureError", payload |-> NoPayload]
  ELSE [exc |-> "none", payload |-> token.payload]

\* jwt.decode(token, key, algorithms=["HS256"]) at time t: the exception it
\* raises ("none" when it returns) and the payload it returns.
jwt_decode(token, key, t) ==
  IF token.fmt # "jwt" THEN [exc |-> "InvalidTokenError", payload |-> NoPayload]
  ELSE IF token.key # key THEN [exc |-> "InvalidTokenError", payload |-> NoPayload]
  ELSE IF token.payload.exp * TicksPerSec <= t
    THEN [exc |-> "ExpiredSignatureError", payload |-> NoPayload]
  ELSE [exc |-> "none", payload |-> token.payload]

\* mutant: the role is taken from the end of the group list
create_access_token_last_group(user, expiration_minutes, t) ==
  LET user_groups == user.groups
      primary_role == IF user_groups # <<>> THEN user_groups[Len(user_groups)] ELSE "User"
      exp_time == t + expiration_minutes * MinuteTicks
      payload == [user_id |-> user.id, username |-> user.username, email |-> user.email,
                  first_name |-> user.first_name, last_name |-> user.last_name,
                  role |-> primary_role, groups |-> user_groups, exp |-> exp_time]
  IN jwt_encode(payload, SECRET_KEY)

create_access_token(user, expiration_minutes, t) ==
  LET user_groups == user.groups
      primary_role == IF user_groups # <<>> THEN user_groups[1] ELSE "User"
      exp_time == t + expiration_minutes * MinuteTicks
      payload == [user_id |-> user.id, username |-> user.username, email |-> user.email,
                  first_name |-> user.first_name, last_name |-> user.last_name,
                  role |-> primary_role, groups |-> user_groups, exp |-> exp_time]
  IN jwt_encode(payload, SECRET_KEY)

\* --------------------------------------------------------------- blacklist
\* The BlacklistedToken table is a bag of rows [token, blacklisted_at].
RowsOf(bl, token) == {e \in BagToSet(bl) : e.token = token}

\* how many rows the table holds for a token
CountOf(bl, token) ==
  LET rows == RowsOf(bl, token)
      sum[S \in SUBSET rows] ==
        IF S = {} THEN 0
        ELSE LET e == CHOOSE x \in S : TRUE IN CopiesIn(e, bl) + sum[S \ {e}]
  IN sum[rows]

\* blacklisted_at of the oldest row of a token, -1 if it has none
EntryAt(bl, token) ==
  IF RowsOf(bl, token) = {} THEN -1
  ELSE (CHOOSE e \in RowsOf(bl, token) :
          \A f \in RowsOf(bl, token) : e.blacklisted_at <= f.blacklisted_at).blacklisted_at

Fresh(e, t) == ~(e.blacklisted_at < t - BlacklistDays * DayTicks)

\* mutant: the purge deletes every row
purge_everything(bl, t) == EmptyBag

\* mutant: nothing is deleted
purge_nothing(bl, t) == bl

\* cls.objects.filter(blacklisted_at__lt=now - 1 day).delete()
purge(bl, t) == [e \in {x \in BagToSet(bl) : Fresh(x, t)} |-> bl[e]]

\* cls.objects.filter(token=token).exists()
exists(bl, token) == RowsOf(bl, token) # {}

\* mutant: the membership check runs on the table as it was before the purge
is_blacklisted_before_purge(bl, token, t) ==
  [blacklist |-> purge(bl, t), found |-> exists(bl, token),
   steps |-> <<"exists", "purge">>]

\* steps lists the statements in the order they run
is_blacklisted(bl, token, t) ==
  [blacklist |-> purge(bl, t), found |-> exists(purge(bl, t), token),
   steps |-> <<"purge", "exists">>]

\* ------------------------------------------------------------ verification
None == [kind |-> "None", payload |-> NoPayload]
Raised == [kind |-> "raise", payload |-> NoPayload]
NoResult == [kind |-> "-", payload |-> NoPayload]

\* mutant: only the first except clause
Caught_expired_only == {"ExpiredSignatureError"}

Caught == {"ExpiredSignatureError", "InvalidTokenError"}

\* what verify_token returns once the blacklist is known not to hold the token
verify_decode(token, t) ==
  LET d == jwt_decode(token, SECRET_KEY, t)
  IN IF d.exc = "none" THEN [kind |-> "claims", payload |-> d.payload]
     ELSE IF d.exc \in Caught THEN None
     ELSE Raised

\* mutant: the blacklist is not consulted
verify_token_decode_only(bl, token, t) ==
  [blacklist |-> bl, result |-> verify_decode(token, t), steps |-> <<"decode">>]

\* mutant: the token is decoded before the blacklist is consulted
verify_token_decode_first(bl, token, t) ==
  LET b == is_blacklisted(bl, token, t)
  IN [blacklist |-> b.blacklist,
      result |-> IF b.found THEN None ELSE verify_decode(token, t),
      steps |-> <<"decode">> \o b.steps]

\* steps: the purge and the membership check of is_blacklisted, then
\* jwt.decode when the first return was not taken
verify_token(bl, token, t) ==
  LET b == is_blacklisted(bl, token, t)
  IN IF b.found
     THEN [blacklist |-> b.blacklist, result |-> None, steps |-> b.steps]
     ELSE [blacklist |-> b.blacklist, result |-> verify_decode(token, t),
           steps |-> b.steps \o <<"decode">>]

\* ---------------------------------------------------------- authentication
\* mutant: the user_id claim is trusted without a look at the identity store
authenticate_no_lookup(bl, token, t, store) ==
  LET v == verify_token(bl, token, t)
  IN [blacklist |-> v.blacklist, result |-> v.result, exc |-> "none",
      user |-> IF v.result.kind = "claims" THEN v.result.payload.user_id ELSE 0]

\* BearerAuth.authenticate: the id of the principal it returns (0 for None)
\* and the exception that leaves it ("none" when it returns)
authenticate(bl, token, t, store) ==
  LET v == verify_token(bl, token, t)
      found == {u \in store : u.id = v.result.payload.user_id}
  IN IF v.result.kind = "raise"
     THEN [blacklist |-> v.blacklist, result |-> v.result, exc |-> "raise", user |-> 0]
     ELSE IF v.result.kind = "claims" /\ found # {}
     THEN [blacklist |-> v.blacklist, result |-> v.result, exc |-> "none",
           user |-> (CHOOSE u \in found : TRUE).id]
     ELSE [blacklist |-> v.blacklist, result |-> v.result, exc |-> "none", user |-> 0]

\* ------------------------------------------------------------------ logout
\* An Authorization header value: scheme, then the space-separated fields
\* that follow it.  NoHeader is the absent (empty) header.
NoHeader == [scheme |-> "", rest |-> <<>>]

\* mutant: the scheme is matched without regard to case
startswith_bearer_any_case(h) ==
  h # NoHeader /\ h.scheme \in {"Bearer", "bearer"} /\ Len(h.rest) >= 1

\* auth_header and auth_header.startswith('Bearer ')
startswith_Bearer(h) == h # NoHeader /\ h.scheme = "Bearer" /\ Len(h.rest) >= 1

\* auth_header.split(' ')[1]
split_token(h) == h.rest[1]

\* mutant: the token column is not unique
blacklist_create_not_unique(bl, token, t, fault) ==
  IF fault THEN [blacklist |-> bl, exc |-> "Exception"]
  ELSE [blacklist |-> bl (+) SetToBag({[token |-> token, blacklisted_at |-> t]}),
        exc |-> "none"]

\* mutant: a duplicate insert renews the row's timestamp
blacklist_create_renew(bl, token, t, fault) ==
  IF fault THEN [blacklist |-> bl, exc |-> "Exception"]
  ELSE IF exists(bl, token)
    THEN [blacklist |-> [e \in {x \in BagToSet(bl) : x.token # token} |-> bl[e]]
                          (+) SetToBag({[token |-> token, blacklisted_at |-> t]}),
          exc |-> "IntegrityError"]
  ELSE [blacklist |-> bl (+) SetToBag({[token |-> token, blacklisted_at |-> t]}),
        exc |-> "none"]

\* BlacklistedToken.objects.create(token=token): the rows afterwards and the
\* exception raised; fault is a store failure other than a uniqueness
\* violation.
blacklist_create(bl, token, t, fault) ==
  IF fault THEN [blacklist |-> bl, exc |-> "Exception"]
  ELSE IF exists(bl, token) THEN [blacklist |-> bl, exc |-> "IntegrityError"]
  ELSE [blacklist |-> bl (+) SetToBag({[token |-> token, blacklisted_at |-> t]}),
        exc |-> "none"]

\* mutant: an expired token is blacklisted too
decode_allows_insert_expired(exc) == exc \in {"none", "ExpiredSignatureError"}

\* the try block around jwt.decode: the insert runs only when decode returns
decode_allows_insert(exc) == exc = "none"

\* mutant: IntegrityError is not handled apart from other exceptions
insert_status_no_integrity(exc) == IF exc = "none" THEN 200 ELSE 500

\* the handlers around the insert: success and IntegrityError fall through to
\* the final return, any other exception returns the DB_ERROR response
insert_status(exc) == IF exc \in {"none", "IntegrityError"} THEN 200 ELSE 500

logout_view(bl, auth_header, t, fault) ==
  IF startswith_Bearer(auth_header)
  THEN LET token == split_token(auth_header)
           d == jwt_decode(token, SECRET_KEY, t)
       IN IF decode_allows_insert(d.exc)
          THEN LET c == blacklist_create(bl, token, t, fault)
               IN [status |-> insert_status(c.exc), blacklist |-> c.blacklist,
                   token |-> token, decoded |-> d.exc, store |-> c.exc]
          ELSE [status |-> 200, blacklist |-> bl, token |-> token,
                decoded |-> d.exc, store |-> "-"]
  ELSE [status |-> 200, blacklist |-> bl, token |-> NoToken, decoded |-> "-", store |-> "-"]

\* ------------------------------------------------------------------- state
VARIABLES
  now,        \* the clock, in ticks
  blacklist,  \* the BlacklistedToken table
  issued,     \* the tokens create_access_token has returned
  JWT_EXPIRATION_TIME,  \* settings.JWT_EXPIRATION_TIME, minutes
  last,       \* the last call and the one before it, see NoCall
  users,      \* the identity store: the principals that exist
  reqs,       \* the requests served concurrently, see the concurrent part
  software,   \* the Software table
  cache,      \* the value under the cache key "all_software"
  contracts   \* the Contract table

vars ==
  <<now, blacklist, issued, JWT_EXPIRATION_TIME, last, users, reqs, software,
    cache, contracts>>

\* the tables and the cache the token operations do not touch
data == <<software, cache, contracts>>

\* cache.get returns None: nothing is stored under the key
NoCache == [hit |-> FALSE, list |-> {}]

\* The record of a call: op, its arguments (user, ttl, token, header) and its
\* results (status, result, and for logout the outcome of jwt.decode and of
\* the insert).
\*   pre_at      blacklisted_at of the token's row before the call, -1 if none
\*   bl_changed  the call changed the blacklist
\*   elapsed     the clock has moved since the call returned
\*   after       what the call before it did with the same token: "create",
\*               "logout" (one whose jwt.decode returned) or "-"
\*   after_status, after_store   status and insert outcome of that call
\*   gap         the clock moved between that call and this one
\*   steps       the statements verify_token ran, in order
\*   principal   id of the principal authenticate returned, 0 for None
\*   stale       the identity store has changed since the call returned
\*   login_identifier, password   what a login call submitted
NoCall ==
  [op |-> "init", user |-> 0, ttl |-> 0, token |-> NoToken, header |-> NoHeader,
   status |-> 0, result |-> NoResult, decoded |-> "-", store |-> "-",
   pre_at |-> -1, bl_changed |-> FALSE, elapsed |-> FALSE,
   after |-> "-", after_status |-> 0, after_store |-> "-", gap |-> FALSE,
   steps |-> <<>>, principal |-> 0, stale |-> FALSE,
   login_identifier |-> "", password |-> ""]

Init ==
  /\ now = 0
  /\ blacklist = EmptyBag
  /\ issued = {}
  /\ JWT_EXPIRATION_TIME \in TTLs
  /\ last = NoCall
  /\ users = Principals
  /\ reqs = EmptyBag
  /\ software = {}
  /\ cache = NoCache
  /\ contracts = EmptyBag

\* the token strings a caller can present: issued ones, the same payloads
\* signed with another key, and a string that is not a token
Forged(tok) == [tok EXCEPT !.key = AttackerKey]
Presentable == issued \cup {Forged(tok) : tok \in issued} \cup {Garbage}

\* header values: absent, "Bearer" with nothing after it, "Bearer <string>",
\* the scheme in another case before a good token, and "Bearer  <token>"
\* (two spaces)
OtherSchemes == {"bearer"}
Headers ==
  {NoHeader, [scheme |-> "Bearer", rest |-> <<>>]}
    \cup {[scheme |-> "Bearer", rest |-> <<tok>>] : tok \in Presentable}
    \cup {[scheme |-> s, rest |-> <<tok>>] : s \in OtherSchemes, tok \in issued}
    \cup {[scheme |-> "Bearer", rest |-> <<Empty, tok>>] : tok \in issued}

\* what the call before this one did with token tok
After(tok) ==
  IF last.token # tok THEN "-"
  ELSE IF last.op = "create" THEN "create"
  ELSE IF last.op = "logout" /\ last.decoded = "none" THEN "logout"
  ELSE "-"

\* the record of a call on token tok, linked to the call before it
Call(op, tok) ==
  IF After(tok) = "-" THEN [NoCall EXCEPT !.op = op, !.token = tok]
  ELSE [NoCall EXCEPT !.op = op, !.token = tok, !.after = After(tok),
                      !.after_status = last.status, !.after_store = last.store,
                      !.gap = last.elapsed,
                      !.user = IF last.op = "create" THEN last.user ELSE 0]

\* ------------------------------------------------------------------- clock
AdvanceTick ==
  /\ now % DayTicks < MaxSubTicks
  /\ now' = now + 1
  /\ last' = [last EXCEPT !.elapsed = TRUE]
  /\ UNCHANGED <<blacklist, issued, JWT_EXPIRATION_TIME, users, reqs, data>>

AdvanceDay ==
  /\ now \div DayTicks < MaxDays
  /\ now' = now + DayTicks
  /\ last' = [last EXCEPT !.elapsed = TRUE]
  /\ UNCHANGED <<blacklist, issued, JWT_EXPIRATION_TIME, users, reqs, data>>

\* -------------------------------------------------------------- operations
CreateAccessToken ==
  \E user \in users :
    LET ttl == JWT_EXPIRATION_TIME
        tok == create_access_token(user, ttl, now)
    IN /\ Cardinality(issued \cup {tok}) <= MaxIssued
       /\ issued' = issued \cup {tok}
       /\ last' = [Call("create", tok) EXCEPT !.user = user.id, !.ttl = ttl,
                                              !.pre_at = EntryAt(blacklist, tok)]
       /\ UNCHANGED <<now, blacklist, JWT_EXPIRATION_TIME, users, reqs, data>>

VerifyToken ==
  \E tok \in Presentable :
    LET v == verify_token(blacklist, tok, now)
    IN /\ blacklist' = v.blacklist
       /\ last' = [Call("verify", tok) EXCEPT !.result = v.result, !.steps = v.steps,
                                              !.pre_at = EntryAt(blacklist, tok),
                                              !.bl_changed = (v.blacklist # blacklist)]
       /\ UNCHANGED <<now, issued, JWT_EXPIRATION_TIME, users, reqs, data>>

Logout ==
  \E h \in Headers, fault \in BOOLEAN :
    LET r == logout_view(blacklist, h, now, fault)
    IN /\ blacklist' = r.blacklist
       /\ last' = [Call("logout", r.token) EXCEPT !.header = h, !.status = r.status,
                                                  !.decoded = r.decoded,
                                                  !.store = r.store,
                                                  !.pre_at = EntryAt(blacklist, r.token),
                                                  !.bl_changed = (r.blacklist # blacklist)]
       /\ UNCHANGED <<now, issued, JWT_EXPIRATION_TIME, users, reqs, data>>

\* a request with the bearer token tok reaches BearerAuth
Authenticate ==
  \E tok \in Presentable :
    LET a == authenticate(blacklist, tok, now, users)
    IN /\ blacklist' = a.blacklist
       /\ last' = [Call("authenticate", tok) EXCEPT
                     !.result = a.result, !.principal = a.user,
                     !.decoded = a.exc,
                     !.pre_at = EntryAt(blacklist, tok),
                     !.bl_changed = (a.blacklist # blacklist)]
       /\ UNCHANGED <<now, issued, JWT_EXPIRATION_TIME, users, reqs, data>>

\* a principal is deleted from the identity store
DeleteUser ==
  \E u \in users :
    /\ users' = users \ {u}
    /\ last' = [last EXCEPT !.stale = TRUE]
    /\ UNCHANGED <<now, blacklist, issued, JWT_EXPIRATION_TIME, reqs, data>>

Next ==
  \/ AdvanceTick
  \/ AdvanceDay
  \/ CreateAccessToken
  \/ VerifyToken
  \/ Logout

Spec == Init /\ [][Next]_vars

\* authenticated requests while principals come and go; the clock moves in
\* days, which is what expiry and the purge depend on
NextAuth ==
  \/ AdvanceDay
  \/ CreateAccessToken
  \/ Logout
  \/ Authenticate
  \/ DeleteUser

SpecAuth == Init /\ [][NextAuth]_vars

\* ------------------------------------------------- concurrent requests
\* at most this many requests are being served at a time
MaxRequests == 2

\* a request in flight or finished: pc is the statement it runs next, raced
\* whether another request was in flight when it arrived and, of a
\* verification, seen the timestamp of the token's blacklist row when it
\* arrived (-1 if none) and at the time it returned
NoReq ==
  [op |-> "-", pc |-> "-", token |-> NoToken, seen |-> -1, decoded |-> "-",
   store |-> "-", status |-> 0, result |-> NoResult, at |-> -1, raced |-> FALSE]

InFlight == {q \in BagToSet(reqs) : q.pc # "done"}

Receive(op, tok) ==
  [NoReq EXCEPT !.op = op, !.token = tok, !.raced = (InFlight # {})]

\* request r moves on as r2
Step(r, r2) == (reqs (-) SetToBag({r})) (+) SetToBag({r2})

\* logout_view up to the insert: the header is read and the token decoded
LogoutReceive ==
  \E tok \in issued :
    LET h == [scheme |-> "Bearer", rest |-> <<tok>>]
        d == jwt_decode(split_token(h), SECRET_KEY, now)
        r == Receive("logout", tok)
    IN /\ BagCardinality(reqs) < MaxRequests
       /\ startswith_Bearer(h)
       /\ reqs' = reqs (+) SetToBag({
            IF decode_allows_insert(d.exc)
            THEN [r EXCEPT !.pc = "insert", !.decoded = d.exc]
            ELSE [r EXCEPT !.pc = "done", !.decoded = d.exc, !.status = 200]})
       /\ UNCHANGED <<now, blacklist, issued, JWT_EXPIRATION_TIME, last, users, data>>

\* BlacklistedToken.objects.create and the handlers around it, then the return
LogoutInsert ==
  \E r \in BagToSet(reqs), fault \in BOOLEAN :
    LET c == blacklist_create(blacklist, r.token, now, fault)
    IN /\ r.op = "logout" /\ r.pc = "insert"
       /\ blacklist' = c.blacklist
       /\ reqs' = Step(r, [r EXCEPT !.pc = "done", !.store = c.exc,
                                    !.status = insert_status(c.exc)])
       /\ UNCHANGED <<now, issued, JWT_EXPIRATION_TIME, last, users, data>>

\* verify_token is entered
VerifyReceive ==
  \E tok \in issued :
    /\ BagCardinality(reqs) < MaxRequests
    /\ reqs' = reqs (+) SetToBag({[Receive("verify", tok) EXCEPT
                                     !.pc = "purge",
                                     !.seen = EntryAt(blacklist, tok)]})
    /\ UNCHANGED <<now, blacklist, issued, JWT_EXPIRATION_TIME, last, users, data>>

\* is_blacklisted: the delete of old rows
VerifyPurge ==
  \E r \in BagToSet(reqs) :
    /\ r.op = "verify" /\ r.pc = "purge"
    /\ blacklist' = purge(blacklist, now)
    /\ reqs' = Step(r, [r EXCEPT !.pc = "exists"])
    /\ UNCHANGED <<now, issued, JWT_EXPIRATION_TIME, last, users, data>>

\* is_blacklisted: the exists query, and the return of None when it finds a row
VerifyExists ==
  \E r \in BagToSet(reqs) :
    /\ r.op = "verify" /\ r.pc = "exists"
    /\ reqs' = Step(r, IF exists(blacklist, r.token)
                       THEN [r EXCEPT !.pc = "done", !.result = None, !.at = now]
                       ELSE [r EXCEPT !.pc = "decode"])
    /\ UNCHANGED <<now, blacklist, issued, JWT_EXPIRATION_TIME, last, users, data>>

\* jwt.decode and the return
VerifyDecode ==
  \E r \in BagToSet(reqs) :
    /\ r.op = "verify" /\ r.pc = "decode"
    /\ reqs' = Step(r, [r EXCEPT !.pc = "done", !.at = now,
                                 !.result = verify_decode(r.token, now)])
    /\ UNCHANGED <<now, blacklist, issued, JWT_EXPIRATION_TIME, last, users, data>>

\* the response of a finished request is sent and the request is gone
Respond ==
  \E r \in BagToSet(reqs) :
    /\ r.pc = "done"
    /\ reqs' = reqs (-) SetToBag({r})
    /\ UNCHANGED <<now, blacklist, issued, JWT_EXPIRATION_TIME, last, users, data>>

\* the requests carry the token of a principal who logged in at time 0
InitConc ==
  /\ now = 0
  /\ blacklist = EmptyBag
  /\ JWT_EXPIRATION_TIME \in TTLs
  /\ \E user \in {PrincipalById(1)} :
       issued = {create_access_token(user, JWT_EXPIRATION_TIME, now)}
  /\ last = NoCall
  /\ users = Principals
  /\ reqs = EmptyBag
  /\ software = {}
  /\ cache = NoCache
  /\ contracts = EmptyBag

NextConc ==
  \/ AdvanceTick
  \/ AdvanceDay
  \/ LogoutReceive
  \/ LogoutInsert
  \/ VerifyReceive
  \/ VerifyPurge
  \/ VerifyExists
  \/ VerifyDecode
  \/ Respond

SpecConc == InitConc /\ [][NextConc]_vars

\* logout requests only
NextLogout ==
  \/ AdvanceTick
  \/ AdvanceDay
  \/ LogoutReceive
  \/ LogoutInsert
  \/ Respond

SpecLogout == InitConc /\ [][NextLogout]_vars

\* ------------------------------------------------------------ registration
\* what callers submit: an empty username, the username and the email of a
\* principal of the store, and new ones
Usernames == {"", "alice", "carol", "dave"}
Emails == {"alice@x", "carol@x"}

NoRegistration ==
  [op |-> "register", pc |-> "-", username |-> "", email |-> "", status |-> 0,
   store |-> "-", raced |-> FALSE]

\* the filter(...).exists() queries of register_user
username_exists(store, username) == \E u \in store : u.username = username
email_exists(store, email) == \E u \in store : u.email = email

NextId(store) ==
  1 + (CHOOSE i \in {u.id : u \in store} \cup {0} :
         \A u \in store : u.id <= i)

\* User.objects.create: the username column of the user table is unique, the
\* email column is not; fault is a failure of the store
user_create(store, username, email, group, fault) ==
  IF fault THEN [store |-> store, exc |-> "Exception", user |-> 0]
  ELSE IF username_exists(store, username)
    THEN [store |-> store, exc |-> "IntegrityError", user |-> 0]
  ELSE [store |-> store \cup
                    {[id |-> NextId(store), username |-> username, email |-> email,
                      first_name |-> "", last_name |-> "", groups |-> group]},
        exc |-> "none", user |-> NextId(store)]

\* register_user is called: the field validation, which reads no shared state
RegisterReceive ==
  \E username \in Usernames, email \in Emails :
    LET r == [NoRegistration EXCEPT !.username = username, !.email = email,
                                    !.raced = (InFlight # {})]
    IN /\ BagCardinality(reqs) < MaxRequests
       /\ reqs' = reqs (+) SetToBag({
            IF username = "" THEN [r EXCEPT !.pc = "done", !.status = 400]
            ELSE [r EXCEPT !.pc = "username"]})
       /\ UNCHANGED <<now, blacklist, issued, JWT_EXPIRATION_TIME, last, users, data>>

\* if User.objects.filter(username=...).exists(): return 400
RegisterCheckUsername ==
  \E r \in BagToSet(reqs) :
    /\ r.op = "register" /\ r.pc = "username"
    /\ reqs' = Step(r, IF username_exists(users, r.username)
                       THEN [r EXCEPT !.pc = "done", !.status = 400]
                       ELSE [r EXCEPT !.pc = "email"])
    /\ UNCHANGED <<now, blacklist, issued, JWT_EXPIRATION_TIME, last, users, data>>

\* if User.objects.filter(email=...).exists(): return 400
RegisterCheckEmail ==
  \E r \in BagToSet(reqs) :
    /\ r.op = "register" /\ r.pc = "email"
    /\ reqs' = Step(r, IF email_exists(users, r.email)
                       THEN [r EXCEPT !.pc = "done", !.status = 400]
                       ELSE [r EXCEPT !.pc = "create"])
    /\ UNCHANGED <<now, blacklist, issued, JWT_EXPIRATION_TIME, last, users, data>>

\* the insert, the default group, the token and the 201; any exception of the
\* insert returns 500
RegisterCreate ==
  \E r \in BagToSet(reqs), fault \in BOOLEAN, group \in {<<>>, <<"User">>} :
    LET c == user_create(users, r.username, r.email, group, fault)
    IN /\ r.op = "register" /\ r.pc = "create"
       /\ users' = c.store
       /\ issued' = IF c.exc = "none"
                    THEN issued \cup
                           {create_access_token(
                              CHOOSE u \in c.store : u.id = c.user,
                              JWT_EXPIRATION_TIME, now)}
                    ELSE issued
       /\ reqs' = Step(r, [r EXCEPT !.pc = "done", !.store = c.exc,
                                    !.status = IF c.exc = "none" THEN 201 ELSE 500])
       /\ UNCHANGED <<now, blacklist, JWT_EXPIRATION_TIME, last, data>>

NextRegister ==
  \/ RegisterReceive
  \/ RegisterCheckUsername
  \/ RegisterCheckEmail
  \/ RegisterCreate
  \/ Respond

SpecRegister == Init /\ [][NextRegister]_vars

\* ------------------------------------------------------- group permissions
\* a Software row: its id and the revision of its fields
SoftwareIds == {1, 2}
Row(id, version) == [id |-> id, version |-> version]

\* the group lists a principal can be given
GroupLists == {<<>>, <<"User">>, <<"Admin", "User">>}

\* mutant: the groups are read from the token's claims
auth_groups_from_claims(store, a) ==
  {a.result.payload.groups[i] : i \in 1..Len(a.result.payload.groups)}

\* request.auth.groups.values_list('name', flat=True): request.auth is the
\* User that authenticate loaded, its groups are read from the store
auth_groups(store, a) ==
  LET u == CHOOSE x \in store : x.id = a.user
  IN {u.groups[i] : i \in 1..Len(u.groups)}

\* the wrapper of required_groups(group_names): 403 or the view runs
required_groups(group_names, store, a) ==
  IF a.user = 0 THEN 403
  ELSE IF ~(\E group \in group_names : group \in auth_groups(store, a)) THEN 403
  ELSE 0

\* DELETE software/{id} with a bearer token: BearerAuth, the group check, the
\* lookup and the delete, whose post_delete signal deletes the cache key
delete_software(bl, token, t, store, rows, cached, id) ==
  LET a == authenticate(bl, token, t, store)
      denied == required_groups({"Admin"}, store, a)
      found == {r \in rows : r.id = id}
      same == [blacklist |-> a.blacklist, principal |-> a.user, result |-> a.result,
               software |-> rows, cache |-> cached, status |-> 0]
  IN IF a.user = 0 THEN [same EXCEPT !.status = 401]
     ELSE IF denied # 0 THEN [same EXCEPT !.status = denied]
     ELSE IF found = {} THEN [same EXCEPT !.status = 404]
     ELSE [same EXCEPT !.software = rows \ found, !.cache = NoCache, !.status = 204]

DeleteSoftware ==
  \E tok \in Presentable, id \in SoftwareIds :
    LET d == delete_software(blacklist, tok, now, users, software, cache, id)
    IN /\ blacklist' = d.blacklist
       /\ software' = d.software
       /\ cache' = d.cache
       /\ last' = [Call("delete_software", tok) EXCEPT
                     !.status = d.status, !.principal = d.principal,
                     !.result = d.result,
                     !.bl_changed = (d.software # software)]
       /\ UNCHANGED <<now, issued, JWT_EXPIRATION_TIME, users, reqs, contracts>>

\* a principal's groups are changed
SetGroups ==
  \E u \in users, g \in GroupLists :
    /\ g # u.groups
    /\ users' = (users \ {u}) \cup {[u EXCEPT !.groups = g]}
    /\ last' = [last EXCEPT !.stale = TRUE]
    /\ UNCHANGED <<now, blacklist, issued, JWT_EXPIRATION_TIME, reqs, data>>

\* one Software row exists
InitGroups ==
  /\ now = 0
  /\ blacklist = EmptyBag
  /\ issued = {}
  /\ JWT_EXPIRATION_TIME \in TTLs
  /\ last = NoCall
  /\ users = Principals
  /\ reqs = EmptyBag
  /\ software = {Row(1, 0)}
  /\ cache = NoCache
  /\ contracts = EmptyBag

NextGroups ==
  \/ CreateAccessToken
  \/ SetGroups
  \/ DeleteSoftware

SpecGroups == InitGroups /\ [][NextGroups]_vars

\* --------------------------------------------------- the software list cache
MaxVersion == 1

\* a request of the cache part: a get_all_software call (op "get"), whose
\* list is its local software_list, or an authorised write to Software (op
\* "create", "update" or "delete") on row id
NoFetch ==
  [op |-> "-", pc |-> "-", id |-> 0, list |-> {}, raced |-> FALSE]

\* get_all_software is called
GetReceive ==
  /\ BagCardinality(reqs) < MaxRequests
  /\ reqs' = reqs (+) SetToBag({[NoFetch EXCEPT !.op = "get", !.pc = "cache.get",
                                                !.raced = (InFlight # {})]})
  /\ UNCHANGED <<now, blacklist, issued, JWT_EXPIRATION_TIME, last, users, data>>

\* software_list = cache.get(cache_key); a hit is returned
GetCache ==
  \E r \in BagToSet(reqs) :
    /\ r.op = "get" /\ r.pc = "cache.get"
    /\ reqs' = Step(r, IF cache.hit
                       THEN [r EXCEPT !.pc = "done", !.list = cache.list]
                       ELSE [r EXCEPT !.pc = "query"])
    /\ UNCHANGED <<now, blacklist, issued, JWT_EXPIRATION_TIME, last, users, data>>

\* software_list = list(Software.objects.all())
GetQuery ==
  \E r \in BagToSet(reqs) :
    /\ r.op = "get" /\ r.pc = "query"
    /\ reqs' = Step(r, [r EXCEPT !.pc = "cache.set", !.list = software])
    /\ UNCHANGED <<now, blacklist, issued, JWT_EXPIRATION_TIME, last, users, data>>

\* cache.set(cache_key, software_list, cache_expiry) and the return
GetSet ==
  \E r \in BagToSet(reqs) :
    /\ r.op = "get" /\ r.pc = "cache.set"
    /\ cache' = [hit |-> TRUE, list |-> r.list]
    /\ reqs' = Step(r, [r EXCEPT !.pc = "done"])
    /\ UNCHANGED <<now, blacklist, issued, JWT_EXPIRATION_TIME, last, users,
                   software, contracts>>

\* the entry reaches its CACHE_TTL
CacheExpire ==
  /\ cache.hit
  /\ cache' = NoCache
  /\ UNCHANGED <<now, blacklist, issued, JWT_EXPIRATION_TIME, last, users, reqs,
                 software, contracts>>

\* the rows after Software.objects.create, software.save() or
\* software.delete() on row id
software_write(rows, op, id) ==
  LET found == {r \in rows : r.id = id}
  IN IF op = "create" THEN rows \cup {Row(id, 0)}
     ELSE IF op = "update"
       THEN (rows \ found) \cup {Row(id, (r.version + 1) % (MaxVersion + 1)) : r \in found}
     ELSE rows \ found

\* add_new_software, update_software or delete_software reaches its database
\* write: create of an id not in use, save or delete of a row that exists
WriteSoftware ==
  \E op \in {"create", "update", "delete"}, id \in SoftwareIds :
    /\ BagCardinality(reqs) < MaxRequests
    /\ (op = "create") <=> (\A r \in software : r.id # id)
    /\ software' = software_write(software, op, id)
    /\ reqs' = reqs (+) SetToBag({[NoFetch EXCEPT !.op = op, !.pc = "signal",
                                                  !.id = id,
                                                  !.raced = (InFlight # {})]})
    /\ UNCHANGED <<now, blacklist, issued, JWT_EXPIRATION_TIME, last, users,
                   cache, contracts>>

\* the post_save or post_delete receiver: cache.delete("all_software")
InvalidateCache ==
  \E r \in BagToSet(reqs) :
    /\ r.op \in {"create", "update", "delete"} /\ r.pc = "signal"
    /\ cache' = NoCache
    /\ reqs' = Step(r, [r EXCEPT !.pc = "done"])
    /\ UNCHANGED <<now, blacklist, issued, JWT_EXPIRATION_TIME, last, users,
                   software, contracts>>

NextCache ==
  \/ GetReceive
  \/ GetCache
  \/ GetQuery
  \/ GetSet
  \/ CacheExpire
  \/ WriteSoftware
  \/ InvalidateCache
  \/ Respond

SpecCache == Init /\ [][NextCache]_vars

\* ---------------------------------------------------------- contract upload
\* at most this many contracts are uploaded in a behaviour
MaxUploads == 3

\* the uploaded file names, as os.path.splitext splits them
FileNames == {[name |-> "a", extension |-> ".pdf"],
              [name |-> "a-1", extension |-> ".pdf"]}
ContentTypes == {"application/pdf", "image/png"}

NoUpload ==
  [op |-> "upload", pc |-> "-", software_id |-> 0, file |-> [name |-> "", extension |-> ""],
   new_name |-> "", counter |-> 0, status |-> 0, raced |-> FALSE]

\* software.contracts.filter(name=new_name).exists()
contract_exists(rows, software_id, new_name) ==
  \E c \in BagToSet(rows) : c.software = software_id /\ c.name = new_name

\* f"{name}-{counter}{extension}"
numbered_name(file, counter) ==
  file.name \o "-" \o ToString(counter) \o file.extension

\* Contract.objects.create(software=..., name=new_name, ...): a row is added,
\* whatever rows there are; fault is a failure of the store or of the file
\* storage
contract_create(rows, software_id, new_name, fault) ==
  IF fault THEN [contracts |-> rows, status |-> 400]
  ELSE [contracts |-> rows (+) SetToBag({[software |-> software_id, name |-> new_name]}),
        status |-> 201]

\* upload_software_contract is called by an authenticated principal: the
\* content type, the lookup of the software, and the first candidate name
UploadReceive ==
  \E file \in FileNames, content_type \in ContentTypes, id \in SoftwareIds :
    LET r == [NoUpload EXCEPT !.software_id = id, !.file = file,
                              !.raced = (InFlight # {})]
    IN /\ BagCardinality(reqs) < MaxRequests
       /\ BagCardinality(contracts) + BagCardinality(reqs) < MaxUploads
       /\ reqs' = reqs (+) SetToBag({
            IF content_type # "application/pdf"
            THEN [r EXCEPT !.pc = "done", !.status = 400]
            ELSE IF \A s \in software : s.id # id
            THEN [r EXCEPT !.pc = "done", !.status = 404]
            ELSE [r EXCEPT !.pc = "exists", !.counter = 1,
                           !.new_name = file.name \o file.extension]})
       /\ UNCHANGED <<now, blacklist, issued, JWT_EXPIRATION_TIME, last, users, data>>

\* one test of the while loop, and its body when the name is in use
UploadExists ==
  \E r \in BagToSet(reqs) :
    /\ r.op = "upload" /\ r.pc = "exists"
    /\ reqs' = Step(r, IF contract_exists(contracts, r.software_id, r.new_name)
                       THEN [r EXCEPT !.new_name = numbered_name(r.file, r.counter),
                                      !.counter = r.counter + 1]
                       ELSE [r EXCEPT !.pc = "create"])
    /\ UNCHANGED <<now, blacklist, issued, JWT_EXPIRATION_TIME, last, users, data>>

\* the insert and the return
UploadCreate ==
  \E r \in BagToSet(reqs), fault \in BOOLEAN :
    LET c == contract_create(contracts, r.software_id, r.new_name, fault)
    IN /\ r.op = "upload" /\ r.pc = "create"
       /\ contracts' = c.contracts
       /\ reqs' = Step(r, [r EXCEPT !.pc = "done", !.status = c.status])
       /\ UNCHANGED <<now, blacklist, issued, JWT_EXPIRATION_TIME, last, users,
                      software, cache>>

\* Software row 1 exists
InitUpload ==
  /\ now = 0
  /\ blacklist = EmptyBag
  /\ issued = {}
  /\ JWT_EXPIRATION_TIME \in TTLs
  /\ last = NoCall
  /\ users = Principals
  /\ reqs = EmptyBag
  /\ software = {Row(1, 0)}
  /\ cache = NoCache
  /\ contracts = EmptyBag

NextUpload ==
  \/ UploadReceive
  \/ UploadExists
  \/ UploadCreate
  \/ Respond

SpecUpload == InitUpload /\ [][NextUpload]_vars

\* -------------------------------------------------------------------- login
\* the password column of the user table, by principal id
PasswordOf(id) ==
  IF id = 1 THEN "alice-pw" ELSE IF id = 2 THEN "bob-pw" ELSE "carol-pw"

\* what callers submit as login_identifier and password
Identifiers == {"", "alice", "alice@x", "bob@x", "nobody"}
Passwords == {"", "alice-pw", "carol-pw"}

\* a third principal, registered with the email of the first
Carol ==
  [id |-> 3, username |-> "carol", email |-> "alice@x", first_name |-> "Carol",
   last_name |-> "C", groups |-> <<"User">>]

\* mutant: every password is accepted
check_password_any(user, password) == TRUE

\* user.check_password(login_data.password)
check_password(user, password) == password = PasswordOf(user.id)

\* User.objects.filter(Q(username=...) | Q(email=...)).first(): the match with
\* the lowest id, [id |-> 0] when there is none
find_user(store, login_identifier) ==
  LET found == {u \in store : u.username = login_identifier
                                \/ u.email = login_identifier}
  IN IF found = {} THEN [id |-> 0]
     ELSE CHOOSE u \in found : \A v \in found : u.id <= v.id

\* fault: create_access_token raises
login_view(store, login_identifier, password, ttl, t, fault) ==
  LET user == find_user(store, login_identifier)
      none == [status |-> 0, token |-> NoToken, user |-> 0]
  IN IF login_identifier = "" \/ password = "" THEN [none EXCEPT !.status = 400]
     ELSE IF user.id = 0 THEN [none EXCEPT !.status = 401]
     ELSE IF ~check_password(user, password) THEN [none EXCEPT !.status = 401]
     ELSE IF fault THEN [none EXCEPT !.status = 500]
     ELSE [status |-> 200, token |-> create_access_token(user, ttl, t),
           user |-> user.id]

Login ==
  \E login_identifier \in Identifiers, password \in Passwords, fault \in BOOLEAN :
    LET l == login_view(users, login_identifier, password, JWT_EXPIRATION_TIME,
                        now, fault)
        out == IF l.status = 200 THEN issued \cup {l.token} ELSE issued
    IN /\ Cardinality(out) <= MaxIssued
       /\ issued' = out
       /\ last' = [Call("login", l.token) EXCEPT
                     !.status = l.status, !.user = l.user,
                     !.login_identifier = login_identifier,
                     !.password = password,
                     !.bl_changed = (out # issued)]
       /\ UNCHANGED <<now, blacklist, JWT_EXPIRATION_TIME, users, reqs, data>>

InitLogin ==
  /\ now = 0
  /\ blacklist = EmptyBag
  /\ issued = {}
  /\ JWT_EXPIRATION_TIME \in TTLs
  /\ last = NoCall
  /\ users = Principals \cup {Carol}
  /\ reqs = EmptyBag
  /\ software = {}
  /\ cache = NoCache
  /\ contracts = EmptyBag

NextLogin ==
  \/ AdvanceDay
  \/ Login
  \/ DeleteUser

SpecLogin == InitLogin /\ [][NextLogin]_vars

\* ================================================================== claims
\* the call recorded in last has just returned: the clock has not moved
JustReturned(op) == last.op = op /\ ~last.elapsed

Decodes(tok, t) == jwt_decode(tok, SECRET_KEY, t).exc = "none"

\* C1: once logout with 'Bearer T' (T correctly signed and unexpired) has
\* returned 200, whatever happened before, a verify_token(T) that runs
\* directly afterwards returns None.
C1_VerifyAfterLogoutIsInvalid ==
  (/\ JustReturned("verify")
   /\ last.after = "logout"
   /\ last.after_status = 200
   /\ ~last.gap)
    => last.result = None

\* C2: verify_token applied to the token create_access_token(P, ttl) has just
\* returned, with no time elapsed and no logout in between, returns claims
\* with user_id = P.id and the other claims as put in at issuance.
C2_VerifyAfterCreateReturnsClaims ==
  (/\ JustReturned("verify")
   /\ last.after = "create"
   /\ ~last.gap)
    => LET P == PrincipalById(last.user)
           c == last.result.payload
       IN /\ last.result.kind = "claims"
          /\ c.user_id = P.id
          /\ c.username = P.username
          /\ c.email = P.email
          /\ c.first_name = P.first_name
          /\ c.last_name = P.last_name
          /\ c.groups = P.groups
          /\ c.exp = (now + JWT_EXPIRATION_TIME * MinuteTicks) \div TicksPerSec

\* C3: at every time now >= T.exp, the boundary now = exp included,
\* verify_token(T) of an issued token T returns None, revoked or not; the
\* clock never goes back, so it never returns claims again.
C3_ExpiredIsInvalid ==
  [][/\ now' >= now
     /\ (/\ last'.op = "verify"
         /\ ~last'.elapsed
         /\ last'.token \in issued'
         /\ last'.token.payload.exp * TicksPerSec <= now')
          => last'.result = None]_vars

C3_Witness ==
  /\ JustReturned("verify")
  /\ last.token \in issued
  /\ last.token.payload.exp * TicksPerSec = now
  /\ last.pre_at = -1
  /\ last.result = None

\* C4: once a logout has recorded token T in the blacklist, no later
\* verify_token(T) returns claims.
C4_RevocationIsIrreversible ==
  (/\ last.op = "verify"
   /\ last.pre_at # -1)
    => last.result.kind # "claims"

\* C5: a token whose blacklist row is more than 24 hours old when
\* verify_token runs, and which is correctly signed with now < exp, verifies
\* as valid again: the row is purged and the claims are returned.
C5_PurgeLaw ==
  (/\ JustReturned("verify")
   /\ last.pre_at # -1
   /\ now - last.pre_at > SecondsPerDay * TicksPerSec
   /\ last.token.fmt = "jwt"
   /\ last.token.key = SECRET_KEY
   /\ now < last.token.payload.exp * TicksPerSec)
    => /\ last.result = [kind |-> "claims", payload |-> last.token.payload]
       /\ CountOf(blacklist, last.token) = 0

C5_Witness ==
  /\ JustReturned("verify")
  /\ last.pre_at # -1
  /\ now - last.pre_at > SecondsPerDay * TicksPerSec
  /\ last.token \in issued
  /\ last.result.kind = "claims"

C7_LogoutAlwaysSucceeds ==
  last.op = "logout" => last.status = 200

\* C7 amended: logout_view returns 200 in every branch but one: when the
\* token decodes and the insert raises an exception other than
\* IntegrityError it returns 500.
C7_LogoutStatus ==
  last.op = "logout"
    => /\ last.status \in {200, 500}
       /\ last.status = 500 <=> (last.decoded = "none" /\ last.store = "Exception")

C7_Witness ==
  /\ last.op = "logout"
  /\ last.store = "Exception"
  /\ last.status = 500

\* C8 as stated: logout with a correctly signed but expired bearer token
\* returns 200 and inserts a blacklist row for it.
C8_ExpiredLogoutInserts ==
  (/\ last.op = "logout"
   /\ last.token \in issued
   /\ last.decoded = "ExpiredSignatureError")
    => /\ last.status = 200
       /\ last.bl_changed
       /\ CountOf(blacklist, last.token) = 1

\* C8 amended: logout with a correctly signed but expired bearer token
\* returns 200 and leaves the blacklist unchanged: no row is inserted.
C8_ExpiredLogoutNoInsert ==
  (/\ last.op = "logout"
   /\ last.token \in issued
   /\ last.decoded = "ExpiredSignatureError")
    => /\ last.status = 200
       /\ ~last.bl_changed
       /\ (last.pre_at = -1 => CountOf(blacklist, last.token) = 0)

C8_Witness ==
  /\ last.op = "logout"
  /\ last.header.scheme = "Bearer"
  /\ last.token \in issued
  /\ last.token.payload.exp * TicksPerSec <= now
  /\ last.decoded = "ExpiredSignatureError"
  /\ last.status = 200
  /\ CountOf(blacklist, last.token) = 0

\* C9: logout with no Authorization header, or with a value that does not
\* start with 'Bearer ' (case-sensitive), returns 200 and leaves the
\* blacklist unchanged.
C9_NoBearerNoChange ==
  (/\ last.op = "logout"
   /\ \/ last.header = NoHeader
      \/ last.header.scheme # "Bearer"
      \/ last.header.rest = <<>>)
    => /\ last.status = 200
       /\ ~last.bl_changed

C9_Witness ==
  /\ JustReturned("logout")
  /\ last.header.scheme = "bearer"
  /\ Len(last.header.rest) = 1
  /\ last.header.rest[1] \in issued
  /\ Decodes(last.header.rest[1], now)
  /\ CountOf(blacklist, last.header.rest[1]) = 0
  /\ last.status = 200

\* C10: verify_token never raises: every failure path (revoked, expired,
\* malformed, bad signature) returns the one sentinel None.
C10_VerifyNeverRaises ==
  last.op = "verify"
    => /\ last.result.kind # "raise"
       /\ last.result.kind = "claims" \/ last.result = None

C10_Witness ==
  /\ JustReturned("verify")
  /\ last.token = Garbage
  /\ last.result = None

\* C11: verify_token(T) returns claims if and only if T's signature matches
\* the signing key, now < T.exp, and T has no blacklist row that survives the
\* purge of rows older than 24 hours; otherwise it returns None.
C11_ClaimsIffValid ==
  JustReturned("verify")
    => LET T == last.token
           signed == T.fmt = "jwt" /\ T.key = SECRET_KEY
           unexpired == now < T.payload.exp * TicksPerSec
           survives == last.pre_at # -1 /\ now - last.pre_at <= SecondsPerDay * TicksPerSec
       IN IF signed /\ unexpired /\ ~survives
          THEN last.result = [kind |-> "claims", payload |-> T.payload]
          ELSE last.result = None

C11_Witness ==
  /\ JustReturned("verify")
  /\ last.token \in issued
  /\ last.pre_at # -1
  /\ now - last.pre_at <= SecondsPerDay * TicksPerSec
  /\ now < last.token.payload.exp * TicksPerSec
  /\ last.result = None

\* C12: the token create_access_token returns carries groups equal to the
\* principal's full group list and role equal to its first element, or
\* "User" when the list is empty.
C12_RoleAndGroups ==
  last.op = "create"
    => LET P == PrincipalById(last.user)
           c == last.token.payload
       IN /\ c.groups = P.groups
          /\ c.role = IF Len(P.groups) > 0 THEN Head(P.groups) ELSE "User"

C12_Witness ==
  /\ last.op = "create"
  /\ Len(PrincipalById(last.user).groups) > 1
  /\ last.token.payload.role = "Admin"
  /\ last.token.payload.groups = <<"Admin", "User">>

\* C15: the blacklist holds at most one row per token, and a logout whose
\* token is already present leaves the store as it was: the row keeps its
\* blacklisted_at and no second row is added.
C15_UniqueToken ==
  /\ \A e \in BagToSet(blacklist) : CountOf(blacklist, e.token) = 1
  /\ (last.op = "logout" /\ last.decoded = "none" /\ last.pre_at # -1)
       => /\ ~last.bl_changed
          /\ EntryAt(blacklist, last.token) = last.pre_at

C15_Witness ==
  /\ last.op = "logout"
  /\ last.store = "IntegrityError"
  /\ last.gap
  /\ last.pre_at # -1
  /\ last.pre_at < now
  /\ EntryAt(blacklist, last.token) = last.pre_at

\* C16: two create_access_token calls for the same principal and ttl made at
\* different times return different token strings.
C16_DifferentTimesDifferentTokens ==
  ~(/\ last.op = "create"
    /\ last.after = "create"
    /\ last.gap)

\* C17: whatever register_user calls have run and however their statements
\* interleaved, no two principals of the identity store share a username, no
\* two share an email, and a registration that met an existing username was
\* answered 400.
C17_UniqueUsernameAndEmail ==
  /\ \A u, v \in users :
       u # v => (u.username # v.username /\ u.email # v.email)
  /\ \A r \in BagToSet(reqs) :
       (r.pc = "done" /\ r.store = "IntegrityError") => r.status = 400

\* C18: verify_token purges, then checks membership, then decodes; when the
\* token is found in the blacklist the decode is not attempted, so a token
\* that is revoked and expired gets the result of one that is only revoked.
C18_BlacklistBeforeDecode ==
  JustReturned("verify")
    => LET survives == last.pre_at # -1 /\ now - last.pre_at <= SecondsPerDay * TicksPerSec
       IN IF survives
          THEN last.steps = <<"purge", "exists">> /\ last.result = None
          ELSE last.steps = <<"purge", "exists", "decode">>

C18_Witness ==
  /\ JustReturned("verify")
  /\ last.token \in issued
  /\ last.pre_at # -1
  /\ last.token.payload.exp * TicksPerSec <= now
  /\ last.steps = <<"purge", "exists">>
  /\ last.result = None

\* C20: every verify_token call, for any token and whatever its result,
\* deletes all blacklist rows older than 24 hours and no other row.
C20_PurgeOnEveryVerify ==
  [][(last'.op = "verify" /\ ~last'.elapsed)
       => /\ \A e \in BagToSet(blacklist') :
               now' - e.blacklisted_at <= SecondsPerDay * TicksPerSec
          /\ \A e \in BagToSet(blacklist) :
               now' - e.blacklisted_at <= SecondsPerDay * TicksPerSec
                 => /\ e \in BagToSet(blacklist')
                    /\ CopiesIn(e, blacklist') = CopiesIn(e, blacklist)]_vars

C20_Witness ==
  /\ JustReturned("verify")
  /\ last.token = Garbage
  /\ last.bl_changed
  /\ blacklist = EmptyBag

\* C13: authenticate(token) returns principal P only if verify_token(token)
\* returns claims with user_id = P.id and P is in the identity store; when
\* verify_token fails or the principal has been deleted it returns None, and
\* it never raises.
C13_AuthenticateOnlyExisting ==
  (last.op = "authenticate" /\ ~last.stale)
    => /\ last.decoded = "none"
       /\ last.principal # 0
            => /\ last.result.kind = "claims"
               /\ last.result.payload.user_id = last.principal
               /\ \E u \in users : u.id = last.principal
       /\ last.result.kind # "claims" => last.principal = 0
       /\ (\A u \in users : u.id # last.result.payload.user_id) => last.principal = 0

C13_Witness ==
  /\ JustReturned("authenticate")
  /\ ~last.stale
  /\ last.token \in issued
  /\ last.result.kind = "claims"
  /\ \A u \in users : u.id # last.result.payload.user_id
  /\ last.principal = 0

C19_FreshRowNeverValid ==
  \A r \in BagToSet(reqs) :
    (/\ r.op = "verify" /\ r.pc = "done"
     /\ r.seen # -1
     /\ r.at - r.seen <= BlacklistDays * DayTicks)
      => r.result = None

C19_Witness ==
  \E r, q \in BagToSet(reqs) :
    /\ r.op = "verify" /\ r.pc = "done" /\ r.raced
    /\ q.op = "verify" /\ q.pc = "done" /\ q # r
    /\ r.seen # -1
    /\ r.at > r.seen
    /\ r.at - r.seen <= BlacklistDays * DayTicks
    /\ Decodes(r.token, r.at)
    /\ r.result = None

C22_RevocationPerSession ==
  ~(/\ last.op = "verify"
    /\ last.after = "create"
    /\ last.pre_at # -1
    /\ Decodes(last.token, now)
    /\ last.result = None)

\* C23: delete_software runs (answers 204 or 404) exactly when the
\* authenticated principal is in group Admin in the identity store at the
\* time of the request, whatever role and groups the token carries; an
\* authenticated principal who is not gets 403, and nothing is deleted
\* unless the view ran.
C23_GroupsFromStore ==
  (last.op = "delete_software" /\ ~last.stale)
    => LET member == \E u \in users :
                       /\ u.id = last.principal
                       /\ \E i \in 1..Len(u.groups) : u.groups[i] = "Admin"
       IN /\ last.status \in {204, 404} <=> member
          /\ (last.principal # 0 /\ ~member) <=> last.status = 403
          /\ last.principal = 0 <=> last.status = 401
          /\ last.bl_changed <=> last.status = 204

C23_Witness ==
  /\ last.op = "delete_software"
  /\ ~last.stale
  /\ last.principal # 0
  /\ last.result.payload.role = "Admin"
  /\ \E i \in 1..Len(last.result.payload.groups) :
       last.result.payload.groups[i] = "Admin"
  /\ last.status = 403
  /\ software # {}

\* C24: with get_all_software interleaved with creates, updates and deletes
\* of Software, each deleting the cache key after its write, once every
\* operation has finished the cached list is absent or equal to the rows of
\* the Software table.
C24_CacheFreshWhenQuiet ==
  (\A r \in BagToSet(reqs) : r.pc = "done")
    => (cache.hit => cache.list = software)

\* C25: whatever upload_software_contract calls have run for a software and
\* however their statements interleaved, no two contracts of that software
\* have the same name.
C25_DistinctContractNames ==
  \A c \in BagToSet(contracts) : CopiesIn(c, contracts) = 1

\* C26 as stated: login_view answers 200 with a token only when a principal
\* of the store has login_identifier as username or email and the submitted
\* password, the token's user_id being that principal's id; when no principal
\* has the identifier, or none that has it has the password, it answers 401,
\* issues no token and changes nothing.
C26_LoginRejectsWith401 ==
  (last.op = "login" /\ ~last.stale)
    => LET named == {u \in users : u.username = last.login_identifier
                                     \/ u.email = last.login_identifier}
           holders == {u \in named : last.password = PasswordOf(u.id)}
       IN /\ last.status = 200
               => /\ \E u \in holders : last.token.payload.user_id = u.id
                  /\ last.token \in issued
          /\ holders = {}
               => (last.status = 401 /\ last.token = NoToken /\ ~last.bl_changed)

\* C26 amended: as stated, except that a call with an empty login_identifier
\* or an empty password is answered 400, not 401; every answer other than
\* 200 issues no token and changes nothing.
C26_LoginOnlyWithCredentials ==
  (last.op = "login" /\ ~last.stale)
    => LET named == {u \in users : u.username = last.login_identifier
                                     \/ u.email = last.login_identifier}
           holders == {u \in named : last.password = PasswordOf(u.id)}
       IN /\ last.status = 200
               => /\ \E u \in holders : last.token.payload.user_id = u.id
                  /\ last.user = last.token.payload.user_id
                  /\ last.token \in issued
          /\ holders = {}
               => last.status = IF last.login_identifier = "" \/ last.password = ""
                                THEN 400 ELSE 401
          /\ last.status # 200 => (last.token = NoToken /\ ~last.bl_changed)

C26_Witness ==
  /\ JustReturned("login")
  /\ ~last.stale
  /\ last.login_identifier = "alice@x"
  /\ last.password = "alice-pw"
  /\ last.status = 200
  /\ last.token.payload.user_id = 1
  /\ last.bl_changed

====
